---- MODULE Spec2Model ----
(***************************************************************************)
(* Model of the leaf-level ABI value packing of accounts/abi/pack.go:      *)
(* packNum, toBigInt, packBytesSlice and packElement, together with the    *)
(* earlier revision of the same file (src/unnamed/part_000).               *)
(*                                                                         *)
(* Byte strings are sequences of 0..255.  Go strings are byte strings      *)
(* (ASCII codes).  An arbitrary-precision integer (math/big.Int) is a      *)
(* record [neg, abs] with abs the big-endian magnitude without leading     *)
(* zero bytes, so that 256-bit values are computed byte by byte and never  *)
(* as a TLC integer.  A reflect.Value is a flat record (see Base).         *)
(***************************************************************************)
EXTENDS Integers, Sequences, FiniteSets, TLC

\* ------------------------------------------------------------ bounds
\* longest byte payload handed to the packers
MaxPayload == 33
\* logical lengths handed to packBytesSlice directly
MaxLogicalLen == 34

\* ------------------------------------------------------------ bytes
WordSize == 32
AddressLength == 20

Repeat(b, n) == [i \in 1..n |-> b]

Zeros(n) == Repeat(0, n)

\* s without its leading zero bytes
TrimZeros(s) ==
    IF \A i \in 1..Len(s) : s[i] = 0 THEN <<>>
    ELSE LET k == CHOOSE j \in 1..Len(s) :
                    s[j] # 0 /\ \A i \in 1..(j - 1) : s[i] = 0
         IN  SubSeq(s, k, Len(s))

RECURSIVE BitAnd(_, _)
BitAnd(a, b) ==
    IF a = 0 \/ b = 0 THEN 0
    ELSE (a % 2) * (b % 2) + 2 * BitAnd(a \div 2, b \div 2)

\* byte i (1-based from the most significant end) of s seen as an n-byte
\* big-endian number, n >= Len(s)
ByteAt(s, n, i) == IF i <= n - Len(s) THEN 0 ELSE s[i - (n - Len(s))]

Front(s) == SubSeq(s, 1, Len(s) - 1)

Last(s) == s[Len(s)]

\* ------------------------------------------------------------ math/big
RECURSIVE natFromInt(_)
natFromInt(n) ==
    IF n = 0 THEN <<>> ELSE Append(natFromInt(n \div 256), n % 256)

\* |x| - 1 for a non-zero magnitude: the borrow runs through the low-order
\* zero bytes up to the lowest non-zero byte
natDec(s) ==
    LET k == CHOOSE j \in 1..Len(s) :
                s[j] # 0 /\ \A i \in (j + 1)..Len(s) : s[i] = 0
    IN  [i \in 1..Len(s) |->
            IF i < k THEN s[i] ELSE IF i = k THEN s[k] - 1 ELSE 255]

natSubOne(s) == TrimZeros(natDec(s))

\* x & y on magnitudes
natAnd(x, y) ==
    LET n == IF Len(x) < Len(y) THEN Len(x) ELSE Len(y)
    IN  TrimZeros([i \in 1..n |-> BitAnd(ByteAt(x, Len(x), Len(x) - n + i),
                                         ByteAt(y, Len(y), Len(y) - n + i))])

\* x &^ y on magnitudes
natAndNot(x, y) ==
    LET n == Len(x)
    IN  TrimZeros([i \in 1..n |->
            IF Len(y) - n + i < 1 THEN x[i]
            ELSE x[i] - BitAnd(x[i], y[Len(y) - n + i])])

\* s * m + a for a magnitude s and small m, a, byte by byte from the low
\* end with the carry handed upward
RECURSIVE natMulAddRaw(_, _, _)
natMulAddRaw(s, m, a) ==
    IF s = <<>> THEN natFromInt(a)
    ELSE LET t == Last(s) * m + a
         IN  IF t < 256 THEN Append(natMulAddRaw(Front(s), m, 0), t)
             ELSE Append(natMulAddRaw(Front(s), m, t \div 256), t % 256)

natMulAdd(s, m, a) == TrimZeros(natMulAddRaw(s, m, a))

bigZero == [neg |-> FALSE, abs |-> <<>>]

\* big.NewInt(x) and new(big.Int).SetUint64(x)
bigNewInt(x) ==
    [neg |-> x < 0, abs |-> natFromInt(IF x < 0 THEN -x ELSE x)]

\* big.Int.And(x, y) for y >= 0: two's-complement semantics for x < 0
bigAnd(x, y) ==
    IF x.neg THEN [neg |-> FALSE, abs |-> natAndNot(y.abs, natSubOne(x.abs))]
    ELSE [neg |-> FALSE, abs |-> natAnd(x.abs, y.abs)]

IsDigit(c) == c >= 48 /\ c <= 57

\* big.Int.SetString(s, 10): optional sign, then one or more decimal digits
bigSetStringOk(s) ==
    LET body == IF s # <<>> /\ s[1] \in {43, 45} THEN Tail(s) ELSE s
    IN  body # <<>> /\ \A i \in 1..Len(body) : IsDigit(body[i])

Pow10(n) ==
    IF n = 0 THEN 1 ELSE IF n = 1 THEN 10 ELSE IF n = 2 THEN 100
    ELSE IF n = 3 THEN 1000 ELSE IF n = 4 THEN 10000
    ELSE IF n = 5 THEN 100000 ELSE 1000000

\* the value of at most six decimal digits
SmallDecimal(d) ==
    LET v(i) == IF i <= Len(d) THEN (d[i] - 48) * Pow10(Len(d) - i) ELSE 0
    IN  v(1) + v(2) + v(3) + v(4) + v(5) + v(6)

\* nat.scan: the digits are gathered six at a time into a machine word,
\* and each word multiplies the magnitude read so far by 10^6 and adds itself
RECURSIVE natScanDecimal(_, _)
natScanDecimal(digits, acc) ==
    IF digits = <<>> THEN acc
    ELSE LET n == IF Len(digits) < 6 THEN Len(digits) ELSE 6
             next == natMulAdd(acc, Pow10(n), SmallDecimal(SubSeq(digits, 1, n)))
         IN  IF next = <<>> THEN natScanDecimal(SubSeq(digits, n + 1, Len(digits)), <<>>)
             ELSE natScanDecimal(SubSeq(digits, n + 1, Len(digits)), next)

bigSetString(s) ==
    LET body == IF s[1] \in {43, 45} THEN Tail(s) ELSE s
        mag == natScanDecimal(body, <<>>)
    IN  [neg |-> s[1] = 45 /\ mag # <<>>, abs |-> mag]

\* ------------------------------------------------------------ common/math
tt256m1 == [neg |-> FALSE, abs |-> Repeat(255, WordSize)]

\* U256(x) = x.And(x, tt256m1): the receiver x itself holds the result
U256(x) == bigAnd(x, tt256m1)

bigBitLenDiv8(b) ==
    IF b.abs = <<>> THEN 0
    ELSE IF b.abs[1] >= 128 THEN Len(b.abs) ELSE Len(b.abs) - 1

PaddedBigBytes(b, n) ==
    IF bigBitLenDiv8(b) >= n THEN b.abs
    ELSE [i \in 1..n |-> ByteAt(b.abs, n, i)]

\* the bytes U256Bytes(n) returns; n is left holding U256(n)
U256Bytes(n) == PaddedBigBytes(U256(n), WordSize)

Big0 == bigNewInt(0)

Big1 == bigNewInt(1)

\* ------------------------------------------------------------ common
RightPadBytes(slice, l) ==
    IF l <= Len(slice) THEN slice
    ELSE [i \in 1..l |-> IF i <= Len(slice) THEN slice[i] ELSE 0]

LeftPadBytes(slice, l) ==
    IF l <= Len(slice) THEN slice
    ELSE [i \in 1..l |-> ByteAt(slice, l, i)]

\* ------------------------------------------------------------ common (hex)
HexVal(c) ==
    IF c >= 48 /\ c <= 57 THEN c - 48
    ELSE IF c >= 97 /\ c <= 102 THEN c - 87
    ELSE IF c >= 65 /\ c <= 70 THEN c - 55
    ELSE 0 - 1

HexDigit(n) == IF n < 10 THEN 48 + n ELSE 87 + n

has0xPrefix(s) == Len(s) >= 2 /\ s[1] = 48 /\ s[2] \in {120, 88}

IsHexPair(s, j) == HexVal(s[2 * j - 1]) >= 0 /\ HexVal(s[2 * j]) >= 0

\* hex.DecodeString with the error dropped: the bytes decoded before the
\* first invalid character
Hex2Bytes(s) ==
    LET pairs == Len(s) \div 2
        n == CHOOSE k \in 0..pairs :
                /\ \A j \in 1..k : IsHexPair(s, j)
                /\ k = pairs \/ ~IsHexPair(s, k + 1)
    IN  [j \in 1..n |-> 16 * HexVal(s[2 * j - 1]) + HexVal(s[2 * j])]

FromHex(s) ==
    LET s1 == IF has0xPrefix(s) THEN SubSeq(s, 3, Len(s)) ELSE s
        s2 == IF Len(s1) % 2 = 1 THEN <<48>> \o s1 ELSE s1
    IN  Hex2Bytes(s2)

\* Address.SetBytes: crop from the left, right-align in 20 bytes
BytesToAddress(b) ==
    LET c == IF Len(b) > AddressLength
             THEN SubSeq(b, Len(b) - AddressLength + 1, Len(b)) ELSE b
    IN  [i \in 1..AddressLength |-> ByteAt(c, AddressLength, i)]

HexToAddress(s) == BytesToAddress(FromHex(s))

\* lower-case hex digits of a byte string
hexEncode(b) ==
    [i \in 1..(2 * Len(b)) |->
        IF i % 2 = 1 THEN HexDigit(b[(i + 1) \div 2] \div 16)
        ELSE HexDigit(b[i \div 2] % 16)]

\* s[lo] + ... + s[hi]
RECURSIVE SumRange(_, _, _)
SumRange(s, lo, hi) ==
    IF lo > hi THEN 0
    ELSE IF lo = hi THEN s[lo]
    ELSE LET mid == (lo + hi) \div 2
         IN  SumRange(s, lo, mid) + SumRange(s, mid + 1, hi)

SumBytes(s) == SumRange(s, 1, Len(s))

\* Stand-in for nibble i of Keccak256(text): a fixed function of the text and
\* the position.  Only its being a function of the lower-case text is used.
checksumNibble(text, i) == (SumBytes(text) + 5 * i + text[i]) % 16

\* Address.Hex(): "0x" and the EIP-55 mixed-case hex digits
Hex(a) ==
    LET text == hexEncode(a)
    IN  <<48, 120>> \o
        [i \in 1..Len(text) |->
            IF text[i] > 57 /\ checksumNibble(text, i) > 7
            THEN text[i] - 32 ELSE text[i]]

ZeroAddressHex == <<48, 120>> \o Repeat(48, 2 * AddressLength)

\* ------------------------------------------------------------ reflect
\* A reflect.Value.  kind: reflect.Kind; typ: the static type; dyn: for kind
\* Interface the dynamic type of the boxed value; elem: element type of a
\* slice or array; bits: a machine integer's two's-complement bytes;
\* bytes: the contents of a string, byte slice or byte array; flag: a bool;
\* big: the big.Int a *big.Int points to.  Only built-in types, common.Address
\* and *big.Int occur.
Base ==
    [kind |-> "Invalid", typ |-> "", dyn |-> "", elem |-> "",
     bits |-> <<>>, bytes |-> <<>>, flag |-> FALSE, big |-> bigZero]

UintKinds == {"Uint", "Uint8", "Uint16", "Uint32", "Uint64"}

IntKinds == {"Int", "Int8", "Int16", "Int32", "Int64"}

KindWidth(k) ==
    IF k \in {"Int8", "Uint8"} THEN 1
    ELSE IF k \in {"Int16", "Uint16"} THEN 2
    ELSE IF k \in {"Int32", "Uint32"} THEN 4
    ELSE 8

KindType(k) ==
    CASE k = "Int" -> "int" [] k = "Int8" -> "int8" [] k = "Int16" -> "int16"
      [] k = "Int32" -> "int32" [] k = "Int64" -> "int64"
      [] k = "Uint" -> "uint" [] k = "Uint8" -> "uint8" [] k = "Uint16" -> "uint16"
      [] k = "Uint32" -> "uint32" [] k = "Uint64" -> "uint64"
      [] k = "Uintptr" -> "uintptr"

MachineInt(k, b) == [Base EXCEPT !.kind = k, !.typ = KindType(k), !.bits = b]

BigPtr(x) == [Base EXCEPT !.kind = "Ptr", !.typ = "*big.Int", !.big = x]

StringPtr(s) == [Base EXCEPT !.kind = "Ptr", !.typ = "*string", !.bytes = s]

StringValue(s) == [Base EXCEPT !.kind = "String", !.typ = "string", !.bytes = s]

BoolValue(f) == [Base EXCEPT !.kind = "Bool", !.typ = "bool", !.flag = f]

Float64Value == [Base EXCEPT !.kind = "Float64", !.typ = "float64"]

SliceValue(e, b) ==
    [Base EXCEPT !.kind = "Slice", !.typ = IF e = "uint8" THEN "[]uint8" ELSE "[]int",
                 !.elem = e, !.bytes = b]

ArrayValue(e, b) ==
    [Base EXCEPT !.kind = "Array", !.typ = IF e = "uint8" THEN "[N]uint8" ELSE "[N]int",
                 !.elem = e, !.bytes = b]

AddressValue(a) ==
    [Base EXCEPT !.kind = "Array", !.typ = "common.Address", !.elem = "uint8",
                 !.bytes = a]

\* a value stored in an interface{} slot (an element of a []interface{})
Boxed(v) == [v EXCEPT !.kind = "Interface", !.typ = "interface {}", !.dyn = v.typ]

\* the dynamic type of value.Interface()
DynType(v) == IF v.kind = "Interface" THEN v.dyn ELSE v.typ

\* reflect.ValueOf(l) for an int l
\* bits + 1 modulo 256^Len(bits): the carry runs through the low-order 0xFF
\* bytes
natInc(s) ==
    IF \A i \in 1..Len(s) : s[i] = 255 THEN Zeros(Len(s))
    ELSE LET k == CHOOSE j \in 1..Len(s) :
                    s[j] # 255 /\ \A i \in (j + 1)..Len(s) : s[i] = 255
         IN  [i \in 1..Len(s) |->
                IF i < k THEN s[i] ELSE IF i = k THEN s[k] + 1 ELSE 0]

Invert(s) == [i \in 1..Len(s) |-> 255 - s[i]]

IntValueOf(l) ==
    MachineInt("Int",
        IF l >= 0 THEN LeftPadBytes(natFromInt(l), 8)
        ELSE Invert(LeftPadBytes(natFromInt(0 - l - 1), 8)))

\* value.Uint() followed by new(big.Int).SetUint64
bigSetUint64(bits) == [neg |-> FALSE, abs |-> TrimZeros(bits)]

\* value.Int() read as if it were value.Uint()
bigFromInt64Unsigned(bits) == [neg |-> FALSE, abs |-> TrimZeros(bits)]

\* value.Int() followed by big.NewInt: sign and magnitude of the
\* two's-complement bits
bigFromInt64(bits) ==
    IF bits[1] >= 128
    THEN [neg |-> TRUE, abs |-> TrimZeros(natInc(Invert(bits)))]
    ELSE [neg |-> FALSE, abs |-> TrimZeros(bits)]

\* mustArrayToByteSlice: a slice of the array's element type, same contents
mustArrayToByteSlice(v) ==
    [v EXCEPT !.kind = "Slice",
              !.typ = IF v.elem = "uint8" THEN "[]uint8" ELSE "[]int",
              !.dyn = ""]

\* reflect.Value.Bytes() panics unless the value is a slice of bytes
CanBytes(v) == v.kind = "Slice" /\ v.elem = "uint8"

\* reflect.Value.Len() panics unless the value is an array, slice or string
CanLen(v) == v.kind \in {"Array", "Slice", "String"}

\* ------------------------------------------------------------ results
\* What a call gives back: the returned bytes and error ("nil" for none),
\* whether it panicked instead of returning, and the caller's value as the
\* call left it.
Ret(b, e, v) == [bytes |-> b, err |-> e, panic |-> FALSE, arg |-> v]

Panic(v) == [bytes |-> <<>>, err |-> "nil", panic |-> TRUE, arg |-> v]

\* Go's integer division truncates toward zero
GoDiv(a, b) == IF a >= 0 THEN a \div b ELSE 0 - ((0 - a) \div b)

\* ------------------------------------------------------------ pack.go
toBigInt(value) ==
    IF DynType(value) \in {"int", "int64"}
    THEN [bn |-> bigFromInt64(value.bits), err |-> "nil"]
    ELSE IF DynType(value) = "string" /\ bigSetStringOk(value.bytes)
    THEN [bn |-> bigSetString(value.bytes), err |-> "nil"]
    ELSE [bn |-> bigZero, err |-> "Cannot convert to *big.Int"]

\* the rejected text returned along with the error
packNumStringPartial(value) ==
    IF DynType(value) # "string" THEN Panic(value)
    ELSE IF ~bigSetStringOk(value.bytes)
    THEN Ret(value.bytes, "Could not pack number in packNum, invalid string", value)
    ELSE Ret(U256Bytes(bigSetString(value.bytes)), "nil", value)

\* case reflect.String
packNumString(value) ==
    IF DynType(value) # "string" THEN Panic(value)
    ELSE IF ~bigSetStringOk(value.bytes)
    THEN Ret(<<>>, "Could not pack number in packNum, invalid string", value)
    ELSE Ret(U256Bytes(bigSetString(value.bytes)), "nil", value)

\* default: U256Bytes works on the caller's own big.Int
packNumDefault(value) ==
    IF DynType(value) = "*big.Int"
    THEN Ret(U256Bytes(value.big), "nil", [value EXCEPT !.big = U256(value.big)])
    ELSE LET r == toBigInt(value)
         IN  IF r.err # "nil"
             THEN Ret(<<>>, "Could not pack number in packNum, invalid type", value)
             ELSE Ret(U256Bytes(r.bn), "nil", value)

packNum(value) ==
    IF value.kind \in UintKinds
    THEN Ret(U256Bytes(bigSetUint64(value.bits)), "nil", value)
    ELSE IF value.kind \in IntKinds
    THEN Ret(U256Bytes(bigFromInt64(value.bits)), "nil", value)
    ELSE IF value.kind = "Ptr"
    THEN IF DynType(value) # "*big.Int" THEN Panic(value)
         ELSE Ret(U256Bytes(value.big), "nil", value)
    ELSE IF value.kind = "String" THEN packNumString(value)
    ELSE packNumDefault(value)

\* the padding computed as l/32*32 + 32
packBytesSliceExtraWord(bytes, l) ==
    LET len == packNum(IntValueOf(l))
    IN  IF len.panic THEN len
        ELSE IF len.err # "nil" THEN Ret(<<>>, len.err, len.arg)
        ELSE Ret(len.bytes \o RightPadBytes(bytes, (GoDiv(l, 32) + 1) * 32),
                 "nil", len.arg)

packBytesSlice(bytes, l) ==
    LET len == packNum(IntValueOf(l))
    IN  IF len.panic THEN len
        ELSE IF len.err # "nil" THEN Ret(<<>>, len.err, len.arg)
        ELSE Ret(len.bytes \o RightPadBytes(bytes, GoDiv(l + 31, 32) * 32),
                 "nil", len.arg)

Normalize(v) == IF v.kind = "Array" THEN mustArrayToByteSlice(v) ELSE v

\* reflectValue.Len() taken without the string type check
packElementStringUnchecked(reflectValue) ==
    IF ~CanLen(reflectValue) THEN Panic(reflectValue)
    ELSE [packBytesSlice(reflectValue.bytes, Len(reflectValue.bytes))
            EXCEPT !.arg = reflectValue]

\* case StringTy
packElementString(reflectValue) ==
    IF DynType(reflectValue) # "string"
    THEN Ret(<<>>, "String type is not string", reflectValue)
    ELSE [packBytesSlice(reflectValue.bytes, Len(reflectValue.bytes))
            EXCEPT !.arg = reflectValue]

\* the address text taken without the canonical-form comparison
packElementAddressUnvalidated(reflectValue) ==
    LET isStr == DynType(reflectValue) = "string"
        parsed == IF isStr THEN AddressValue(HexToAddress(reflectValue.bytes))
                  ELSE reflectValue
        norm == Normalize(parsed)
    IN  IF DynType(norm) # "[]uint8" /\ DynType(norm) # "common.Address"
        THEN Ret(<<>>, "Could not pack element, invalid address", reflectValue)
        ELSE Ret(LeftPadBytes(norm.bytes, 32), "nil", reflectValue)

\* case AddressTy
packElementAddress(reflectValue) ==
    LET isStr == DynType(reflectValue) = "string"
        addr == reflectValue.bytes
        parsed == IF isStr THEN AddressValue(HexToAddress(addr))
                  ELSE reflectValue
        norm == Normalize(parsed)
    IN  IF isStr /\ addr # ZeroAddressHex /\ Hex(parsed.bytes) # addr
        THEN Ret(<<>>, "Could not pack element, invalid address", reflectValue)
        ELSE IF DynType(norm) # "[]uint8" /\ DynType(norm) # "common.Address"
        THEN Ret(<<>>, "Could not pack element, invalid address", reflectValue)
        ELSE Ret(LeftPadBytes(norm.bytes, 32), "nil", reflectValue)

\* case BoolTy
packElementBool(reflectValue) ==
    IF reflectValue.kind # "Bool" THEN Panic(reflectValue)
    ELSE IF reflectValue.flag
    THEN Ret(PaddedBigBytes(Big1, 32), "nil", reflectValue)
    ELSE Ret(PaddedBigBytes(Big0, 32), "nil", reflectValue)

\* case BytesTy
packElementBytes(reflectValue) ==
    LET norm == Normalize(reflectValue)
    IN  IF norm.typ # "[]uint8"
        THEN Ret(<<>>, "Bytes type is neither slice nor array", reflectValue)
        ELSE [packBytesSlice(norm.bytes, Len(norm.bytes))
                EXCEPT !.arg = reflectValue]

\* fixed bytes padded on the left, as an address is
packElementFixedBytesLeftPad(reflectValue) ==
    LET norm == Normalize(reflectValue)
    IN  IF ~CanBytes(norm) THEN Panic(reflectValue)
        ELSE Ret(LeftPadBytes(norm.bytes, 32), "nil", reflectValue)

\* case FixedBytesTy, FunctionTy
packElementFixedBytes(reflectValue) ==
    LET norm == Normalize(reflectValue)
    IN  IF ~CanBytes(norm) THEN Panic(reflectValue)
        ELSE Ret(RightPadBytes(norm.bytes, 32), "nil", reflectValue)

packElement(t, reflectValue) ==
    IF t \in {"IntTy", "UintTy"} THEN packNum(reflectValue)
    ELSE IF t = "StringTy" THEN packElementString(reflectValue)
    ELSE IF t = "AddressTy" THEN packElementAddress(reflectValue)
    ELSE IF t = "BoolTy" THEN packElementBool(reflectValue)
    ELSE IF t = "BytesTy" THEN packElementBytes(reflectValue)
    ELSE IF t \in {"FixedBytesTy", "FunctionTy"}
    THEN packElementFixedBytes(reflectValue)
    ELSE Ret(<<>>, "Could not pack element, unknown type", reflectValue)

\* ------------------------------------------------------------ part_000
\* The earlier revision of the same three functions.
packNum0(value) ==
    IF value.kind \in UintKinds
    THEN Ret(U256Bytes(bigSetUint64(value.bits)), "nil", value)
    ELSE IF value.kind \in IntKinds
    THEN Ret(U256Bytes(bigFromInt64(value.bits)), "nil", value)
    ELSE IF value.kind = "Ptr"
    THEN IF DynType(value) # "*big.Int" THEN Panic(value)
         ELSE Ret(U256Bytes(value.big), "nil", value)
    ELSE IF value.kind = "String"
    THEN IF DynType(value) # "string" THEN Panic(value)
         ELSE IF ~bigSetStringOk(value.bytes)
         THEN Ret(<<>>, "Could not pack number, invalid string", value)
         ELSE Ret(U256Bytes(bigSetString(value.bytes)), "nil", value)
    ELSE Ret(<<>>, "Could not pack number, unknown kind", value)

packBytesSlice0(bytes, l) ==
    LET len == packNum0(IntValueOf(l))
    IN  IF len.panic THEN len
        ELSE IF len.err # "nil" THEN Ret(<<>>, len.err, len.arg)
        ELSE Ret(len.bytes \o RightPadBytes(bytes, GoDiv(l + 31, 32) * 32),
                 "nil", len.arg)

DecimalText(n) ==
    IF n < 10 THEN <<48 + n>> ELSE <<48 + (n \div 10), 48 + (n % 10)>>

\* the type's name in ASCII, as reflect prints it
TypeText(v) ==
    IF v.typ = "[]uint8" THEN <<91, 93, 117, 105, 110, 116, 56>>
    ELSE IF v.typ = "[]int" THEN <<91, 93, 105, 110, 116>>
    ELSE IF v.typ = "[N]uint8"
    THEN <<91>> \o DecimalText(Len(v.bytes)) \o <<93, 117, 105, 110, 116, 56>>
    ELSE IF v.typ = "[N]int"
    THEN <<91>> \o DecimalText(Len(v.bytes)) \o <<93, 105, 110, 116>>
    ELSE <<99, 111, 109, 109, 111, 110, 46, 65, 100, 100, 114, 101, 115, 115>>

\* reflect.Value.String(): the string itself, else "<T Value>"
ValueString(v) ==
    IF v.kind = "String" THEN v.bytes
    ELSE <<60>> \o TypeText(v) \o <<32, 86, 97, 108, 117, 101, 62>>

packElement0(t, reflectValue) ==
    IF t \in {"IntTy", "UintTy"} THEN packNum0(reflectValue)
    ELSE IF t = "StringTy"
    THEN IF ~CanLen(reflectValue) THEN Panic(reflectValue)
         ELSE [packBytesSlice0(ValueString(reflectValue), Len(reflectValue.bytes))
                 EXCEPT !.arg = reflectValue]
    ELSE IF t = "AddressTy"
    THEN LET isStr == reflectValue.typ = "string"
             addr == reflectValue.bytes
             parsed == IF isStr THEN AddressValue(HexToAddress(addr))
                       ELSE reflectValue
             norm == Normalize(parsed)
         IN  IF isStr /\ addr # ZeroAddressHex /\ Hex(parsed.bytes) # addr
             THEN Ret(<<>>, "Could not pack element, invalid address", reflectValue)
             ELSE IF ~CanBytes(norm) THEN Panic(reflectValue)
             ELSE Ret(LeftPadBytes(norm.bytes, 32), "nil", reflectValue)
    ELSE IF t = "BoolTy"
    THEN IF reflectValue.kind # "Bool" THEN Panic(reflectValue)
         ELSE IF reflectValue.flag
         THEN Ret(PaddedBigBytes(Big1, 32), "nil", reflectValue)
         ELSE Ret(PaddedBigBytes(Big0, 32), "nil", reflectValue)
    ELSE IF t = "BytesTy"
    THEN LET norm == Normalize(reflectValue)
         IN  IF norm.typ # "[]uint8"
             THEN Ret(<<>>, "Bytes type is neither slice nor array", reflectValue)
             ELSE [packBytesSlice0(norm.bytes, Len(norm.bytes))
                     EXCEPT !.arg = reflectValue]
    ELSE IF t \in {"FixedBytesTy", "FunctionTy"}
    THEN LET norm == Normalize(reflectValue)
         IN  IF ~CanBytes(norm) THEN Panic(reflectValue)
             ELSE Ret(RightPadBytes(norm.bytes, 32), "nil", reflectValue)
    ELSE Ret(<<>>, "Could not pack element, unknown type", reflectValue)

\* ------------------------------------------------------------ inputs
Pattern(seed, n) == [i \in 1..n |-> (seed + i) % 256]

PayloadLens == {0, 1, 2, 19, 20, 21, 31, 32, MaxPayload}

\* two's-complement bit patterns of a w-byte machine integer: 0, -1 (or the
\* maximum unsigned), the minimum signed, the maximum signed, 1, and a mix
IntPatterns(w) ==
    {Zeros(w), Repeat(255, w), <<128>> \o Zeros(w - 1),
     <<127>> \o Repeat(255, w - 1), Zeros(w - 1) \o <<1>>, Pattern(200, w)}

MachineInts ==
    UNION {{MachineInt(k, b) : b \in IntPatterns(KindWidth(k))} :
           k \in UintKinds \cup IntKinds \cup {"Uintptr"}}

\* native integers stored in an interface{} slot
BoxedInts ==
    {Boxed(MachineInt(k, b)) : k \in {"Int", "Int64", "Int32", "Uint"},
                               b \in {Zeros(8), Repeat(255, 8), Zeros(7) \o <<1>>}}

\* magnitudes below, at and above 2^256
BigMagnitudes ==
    {<<1>>, <<255>>, <<1, 0>>, Pattern(7, 5),
     <<128>> \o Zeros(WordSize - 1), Repeat(255, WordSize),
     <<1>> \o Zeros(WordSize), <<1>> \o Zeros(WordSize - 1) \o <<1>>,
     <<2>> \o Pattern(90, WordSize), Repeat(255, WordSize + 1)}

BigInts ==
    {bigZero} \cup {[neg |-> n, abs |-> m] : n \in BOOLEAN, m \in BigMagnitudes}

\* decimal literals with the integers they denote: "0" "7" "-1" "+5" "123"
\* "-0" "256" "-255" "65536" "007" "-2147483647" "4294967296"
\* "18446744073709551616" (2^64) "-18446744073709551617"
DecimalVectors ==
    {[text |-> <<48>>, neg |-> FALSE, abs |-> <<>>],
     [text |-> <<55>>, neg |-> FALSE, abs |-> <<7>>],
     [text |-> <<45, 49>>, neg |-> TRUE, abs |-> <<1>>],
     [text |-> <<43, 53>>, neg |-> FALSE, abs |-> <<5>>],
     [text |-> <<49, 50, 51>>, neg |-> FALSE, abs |-> <<123>>],
     [text |-> <<45, 48>>, neg |-> FALSE, abs |-> <<>>],
     [text |-> <<50, 53, 54>>, neg |-> FALSE, abs |-> <<1, 0>>],
     [text |-> <<45, 50, 53, 53>>, neg |-> TRUE, abs |-> <<255>>],
     [text |-> <<54, 53, 53, 51, 54>>, neg |-> FALSE, abs |-> <<1, 0, 0>>],
     [text |-> <<48, 48, 55>>, neg |-> FALSE, abs |-> <<7>>],
     [text |-> <<45, 50, 49, 52, 55, 52, 56, 51, 54, 52, 55>>,
      neg |-> TRUE, abs |-> <<127, 255, 255, 255>>],
     [text |-> <<52, 50, 57, 52, 57, 54, 55, 50, 57, 54>>,
      neg |-> FALSE, abs |-> <<1, 0, 0, 0, 0>>],
     [text |-> <<49, 56, 52, 52, 54, 55, 52, 52, 48, 55, 51, 55, 48, 57, 53, 53,
                 49, 54, 49, 54>>,
      neg |-> FALSE, abs |-> <<1>> \o Zeros(8)],
     [text |-> <<45, 49, 56, 52, 52, 54, 55, 52, 52, 48, 55, 51, 55, 48, 57, 53,
                 53, 49, 54, 49, 55>>,
      neg |-> TRUE, abs |-> <<1>> \o Zeros(7) \o <<1>>]}

NumericTexts == {d.text : d \in DecimalVectors}

\* not decimal literals: "" "-" "abc" "12a" "0x10" "1.5" " 1" "1_0"
NonNumericTexts ==
    {<<>>, <<45>>, <<97, 98, 99>>, <<49, 50, 97>>, <<48, 120, 49, 48>>,
     <<49, 46, 53>>, <<32, 49>>, <<49, 95, 48>>}

SampleAddresses ==
    {Zeros(AddressLength), Repeat(17, AddressLength), Repeat(171, AddressLength),
     Pattern(160, AddressLength), Zeros(AddressLength - 1) \o <<1>>}

ToUpper(s) ==
    [i \in 1..Len(s) |-> IF s[i] >= 97 /\ s[i] <= 102 THEN s[i] - 32 ELSE s[i]]

\* address texts: checksummed, lower case, upper case, "0X" prefix, no
\* prefix, one digit short, one byte long, with a non-hex character
AddressTexts ==
    UNION {{Hex(a),
            <<48, 120>> \o hexEncode(a),
            <<48, 120>> \o ToUpper(hexEncode(a)),
            <<48, 88>> \o hexEncode(a),
            hexEncode(a),
            <<48, 120>> \o Tail(hexEncode(a)),
            <<48, 120>> \o hexEncode(<<1>> \o a),
            <<48, 120, 103>> \o Tail(hexEncode(a))} : a \in SampleAddresses}

PayloadTexts == {Pattern(64, n) : n \in PayloadLens}

Texts == NumericTexts \cup NonNumericTexts \cup AddressTexts \cup PayloadTexts

Payloads == {Pattern(s, n) : s \in {0, 200}, n \in PayloadLens}

Values ==
    MachineInts \cup BoxedInts
    \cup {BigPtr(x) : x \in BigInts} \cup {Boxed(BigPtr(x)) : x \in BigInts}
    \cup {StringValue(s) : s \in Texts} \cup {Boxed(StringValue(s)) : s \in Texts}
    \cup {SliceValue("uint8", b) : b \in Payloads}
    \cup {ArrayValue("uint8", b) : b \in Payloads}
    \cup {AddressValue(a) : a \in SampleAddresses}
    \cup {Boxed(AddressValue(a)) : a \in SampleAddresses}
    \cup {Boxed(SliceValue("uint8", b)) : b \in {Pattern(0, 2), Pattern(0, 20)}}
    \cup {Boxed(ArrayValue("uint8", b)) : b \in {Pattern(0, 2), Pattern(0, 20)}}
    \cup {SliceValue("int", <<1, 2>>), ArrayValue("int", <<1, 2>>),
          BoolValue(TRUE), BoolValue(FALSE), Float64Value,
          Boxed(Float64Value), Boxed(BoolValue(TRUE)),
          StringPtr(<<49>>), Boxed(StringPtr(<<49>>))}

\* logical lengths handed to packBytesSlice with a payload
LogicalLens == {0 - 33, 0 - 1, 0, 1, 31, 32, 33, MaxLogicalLen}

Tags ==
    {"IntTy", "UintTy", "BoolTy", "StringTy", "SliceTy", "TupleTy",
     "AddressTy", "FixedBytesTy", "BytesTy", "FunctionTy"}

\* ------------------------------------------------------------ state
\* pc: "ready" before the call, then "returned" or "panicked";
\* call: the function called, with its type tag and logical length;
\* input: the caller's value as it was before the call;
\* value: the caller's value now; result: the bytes and error returned.
VARIABLES pc, call, input, value, result

vars == <<pc, call, input, value, result>>

NoCall == [fn |-> "none", t |-> "", l |-> 0]

Init ==
    /\ pc = "ready"
    /\ call = NoCall
    /\ input \in Values
    /\ value = input
    /\ result = [bytes |-> <<>>, err |-> "nil"]

Finish(f, t, l, r) ==
    /\ call' = [fn |-> f, t |-> t, l |-> l]
    /\ value' = r.arg
    /\ result' = [bytes |-> r.bytes, err |-> r.err]
    /\ pc' = IF r.panic THEN "panicked" ELSE "returned"
    /\ UNCHANGED input

PackNum ==
    /\ pc = "ready"
    /\ Finish("packNum", "", 0, packNum(value))

PackElement(t) ==
    /\ pc = "ready"
    /\ Finish("packElement", t, 0, packElement(t, value))

IsPayload(v) == v.kind = "Slice" /\ v.typ = "[]uint8"

PackBytesSlice(l) ==
    /\ pc = "ready"
    /\ IsPayload(value)
    /\ Finish("packBytesSlice", "", l,
              [packBytesSlice(value.bytes, l) EXCEPT !.arg = value])

PackNum0 ==
    /\ pc = "ready"
    /\ Finish("packNum0", "", 0, packNum0(value))

PackElement0(t) ==
    /\ pc = "ready"
    /\ Finish("packElement0", t, 0, packElement0(t, value))

PackBytesSlice0(l) ==
    /\ pc = "ready"
    /\ IsPayload(value)
    /\ Finish("packBytesSlice0", "", l,
              [packBytesSlice0(value.bytes, l) EXCEPT !.arg = value])

Next ==
    \/ PackNum
    \/ \E t \in Tags : PackElement(t)
    \/ \E l \in LogicalLens : PackBytesSlice(l)
    \/ PackNum0
    \/ \E t \in Tags : PackElement0(t)
    \/ \E l \in LogicalLens : PackBytesSlice0(l)

Spec == Init /\ [][Next]_vars

TypeOK ==
    /\ pc \in {"ready", "returned", "panicked"}
    /\ input \in Values
    /\ \A i \in 1..Len(result.bytes) : result.bytes[i] \in 0..255

\* ------------------------------------------------------------ claims
Called(f) == pc # "ready" /\ call.fn = f

\* w + m = 0 modulo 2^256 for words w and m: below the lowest non-zero byte
\* of m both are zero, at that byte the two add up to 256, and above it
\* every pair of bytes adds up to 255
IsNegatedWord(w, m) ==
    IF m = Zeros(WordSize) THEN w = Zeros(WordSize)
    ELSE LET k == CHOOSE j \in 1..WordSize :
                    m[j] # 0 /\ \A i \in (j + 1)..WordSize : m[i] = 0
         IN  \A i \in 1..WordSize :
                w[i] = IF i > k THEN 0
                       ELSE IF i = k THEN 256 - m[k] ELSE 255 - m[i]

\* the low-order 32 bytes of a magnitude, as a word
LowWord(abs) ==
    LET n == IF Len(abs) < WordSize THEN Len(abs) ELSE WordSize
    IN  Zeros(WordSize - n) \o SubSeq(abs, Len(abs) - n + 1, Len(abs))

\* w is the big-endian word of the integer (neg, abs) modulo 2^256: the low
\* word of a non-negative integer; for a negative one the word that added
\* to the low word of its magnitude gives 0 modulo 2^256
IsWordOf(w, neg, abs) ==
    /\ Len(w) = WordSize
    /\ IF neg THEN IsNegatedWord(w, LowWord(abs))
       ELSE w = LowWord(abs)

IsSignedInt(v) ==
    \/ v.kind \in IntKinds
    \/ v.kind = "Interface" /\ v.dyn \in {"int", "int64"}

IsBigInt(v) == DynType(v) = "*big.Int"

IsDecimalText(v) == DynType(v) = "string" /\ v.bytes \in NumericTexts

\* the numeric input forms packNum has a conversion for
IsNumericForm(v) ==
    v.kind \in UintKinds \/ IsSignedInt(v) \/ IsBigInt(v) \/ IsDecimalText(v)

\* w is the word of the integer v denotes: a machine integer's bits
\* zero-extended (unsigned) or sign-extended (signed) to 32 bytes
IsWordOfValue(w, v) ==
    IF v.kind \in UintKinds THEN w = Zeros(WordSize - Len(v.bits)) \o v.bits
    ELSE IF IsSignedInt(v)
    THEN w = Repeat(IF v.bits[1] >= 128 THEN 255 ELSE 0,
                    WordSize - Len(v.bits)) \o v.bits
    ELSE IF IsBigInt(v) THEN IsWordOf(w, v.big.neg, v.big.abs)
    ELSE \E d \in DecimalVectors :
            d.text = v.bytes /\ IsWordOf(w, d.neg, d.abs)

\* C1: for every numeric input packNum accepts, denoting the integer v,
\* packNum returns no error and exactly the 32-byte big-endian word of
\* v mod 2^256: leading zero bytes for 0 <= v < 2^256, the 256-bit two's
\* complement for v < 0 (-1 gives 32 bytes 0xFF), wrap-around from 2^256 on.
C1_PackNumWord ==
    (Called("packNum") /\ IsNumericForm(input)) =>
        /\ pc = "returned"
        /\ result.err = "nil"
        /\ IsWordOfValue(result.bytes, input)
        /\ (IsSignedInt(input) /\ input.bits = Repeat(255, Len(input.bits)))
              => result.bytes = Repeat(255, WordSize)
        /\ (IsBigInt(input) /\ input.big = [neg |-> TRUE, abs |-> <<1>>])
              => result.bytes = Repeat(255, WordSize)

\* a negative big integer of magnitude above 2^256 has been packed
C1_Witness ==
    /\ Called("packNum")
    /\ IsBigInt(input) /\ input.big.neg /\ Len(input.big.abs) > WordSize
    /\ result.err = "nil"
    /\ Len(result.bytes) = WordSize
    /\ result.bytes # Zeros(WordSize)

PackGoCalls == {"packNum", "packBytesSlice", "packElement"}

StaticTags ==
    {"IntTy", "UintTy", "BoolTy", "AddressTy", "FixedBytesTy", "FunctionTy"}

\* a text string, as the String and Address cases test for it
IsTextValue(v) == DynType(v) = "string"

\* a byte slice or a fixed-size byte array (an address value included)
IsByteValue(v) == v.kind \in {"Slice", "Array"} /\ v.elem = "uint8"

\* C2: the result of every packing function has a length that is a multiple
\* of 32, for every tag, payload and logical length.
C2_WordAligned ==
    (pc = "returned" /\ call.fn \in PackGoCalls) =>
        Len(result.bytes) % WordSize = 0

\* C3: every successful packElement call with a static tag returns exactly
\* one 32-byte word, whatever the length of the byte value supplied.
C3_StaticOneWord ==
    (Called("packElement") /\ pc = "returned" /\ call.t \in StaticTags
        /\ result.err = "nil") =>
        Len(result.bytes) = WordSize

\* C4: for the String and DynamicBytes tags with a payload of l bytes,
\* packElement returns 1 + ceil(l/32) words: the word of l, the payload
\* unchanged and in order, then only zero bytes; a payload of a multiple of
\* 32 bytes gets no padding word.
C4_LengthPrefixed ==
    (Called("packElement")
        /\ \/ call.t = "StringTy" /\ IsTextValue(input)
           \/ call.t = "BytesTy" /\ IsByteValue(input)) =>
        LET l == Len(input.bytes)
            b == result.bytes
        IN  /\ pc = "returned"
            /\ result.err = "nil"
            /\ Len(b) = WordSize * (1 + (l + WordSize - 1) \div WordSize)
            /\ \A i \in 1..(WordSize - 2) : b[i] = 0
            /\ b[WordSize - 1] * 256 + b[WordSize] = l
            /\ \A i \in 1..l : b[WordSize + i] = input.bytes[i]
            /\ \A i \in (WordSize + l + 1)..Len(b) : b[i] = 0
            /\ (l % WordSize = 0 => Len(b) = WordSize + l)

\* a payload of exactly one word has been packed into two words
C4_Witness ==
    /\ Called("packElement") /\ call.t = "BytesTy"
    /\ IsByteValue(input) /\ Len(input.bytes) = WordSize
    /\ Len(result.bytes) = 2 * WordSize
    /\ result.bytes[WordSize] = WordSize

\* C5: every failing call of packNum, packBytesSlice or packElement returns
\* a zero-length byte result with the error, also when the failure is one
\* of packNum that packElement or packBytesSlice hands on.
C5_ErrorMeansEmpty ==
    (pc = "returned" /\ call.fn \in PackGoCalls /\ result.err # "nil") =>
        result.bytes = <<>>

\* packElement has handed on packNum's rejection of a non-decimal string
C5_Witness ==
    /\ Called("packElement") /\ call.t = "UintTy"
    /\ input.kind = "String" /\ input.bytes # <<>>
    /\ result.err = "Could not pack number in packNum, invalid string"
    /\ result.bytes = <<>>

\* C6: for the Address tag with a text value s, packElement fails with the
\* invalid-address error and an empty result exactly when the canonical hex
\* form of the address parsed from s differs from s and s is not the
\* all-zero literal; otherwise it returns the parsed 20 bytes in the
\* low-order bytes of one word, the all-zero literal giving the zero word.
C6_AddressText ==
    (pc # "ready" /\ call.t = "AddressTy"
        /\ \/ call.fn = "packElement" /\ IsTextValue(input)
           \/ call.fn = "packElement0" /\ input.kind = "String") =>
        LET s == input.bytes
            a == HexToAddress(s)
        IN  /\ pc = "returned"
            /\ IF Hex(a) # s /\ s # ZeroAddressHex
               THEN /\ result.err = "Could not pack element, invalid address"
                    /\ result.bytes = <<>>
               ELSE /\ result.err = "nil"
                    /\ result.bytes = Zeros(WordSize - AddressLength) \o a
            /\ s = ZeroAddressHex =>
                  result.err = "nil" /\ result.bytes = Zeros(WordSize)
            /\ s = <<48, 120>> \o Repeat(49, 2 * AddressLength) =>
                  result.bytes = Zeros(WordSize - AddressLength)
                                   \o Repeat(17, AddressLength)

\* a well-formed lower-case address text that is not in canonical case has
\* been rejected
C6_Witness ==
    /\ Called("packElement") /\ call.t = "AddressTy"
    /\ IsTextValue(input)
    /\ input.bytes = <<48, 120>> \o hexEncode(HexToAddress(input.bytes))
    /\ result.err = "Could not pack element, invalid address"
    /\ result.bytes = <<>>

\* C7: a byte value of n <= 32 bytes is placed in the last n bytes of the
\* word for the Address tag and in the first n bytes for the FixedBytes and
\* Function tags, the other bytes being zero; the result depends on the
\* contents only, not on the value being an array or a slice.
C7_PaddingDirection ==
    (Called("packElement") /\ IsByteValue(input)
        /\ Len(input.bytes) <= WordSize) =>
        LET n == Len(input.bytes)
        IN  /\ call.t = "AddressTy" =>
                 /\ pc = "returned" /\ result.err = "nil"
                 /\ result.bytes = Zeros(WordSize - n) \o input.bytes
            /\ call.t \in {"FixedBytesTy", "FunctionTy"} =>
                 /\ pc = "returned" /\ result.err = "nil"
                 /\ result.bytes = input.bytes \o Zeros(WordSize - n)

\* a two-byte array has been packed as fixed bytes, left-aligned
C7_Witness ==
    /\ Called("packElement") /\ call.t = "FixedBytesTy"
    /\ input.kind = "Array" /\ input.bytes = <<1, 2>>
    /\ result.bytes = <<1, 2>> \o Zeros(WordSize - 2)

\* inputs that are none of the numeric forms and have no conversion
IsUnsupportedNumeric(v) ==
    \/ v.kind \in {"Float64", "Bool", "Slice", "Array", "Uintptr"}
    \/ v.kind = "Ptr" /\ v.typ # "*big.Int"
    \/ v.kind = "Interface" /\ v.dyn \notin {"int", "int64", "string", "*big.Int"}

\* C8: for every input that is not a recognized numeric form and has no
\* conversion (a float, a bool, a slice, a pointer to something other than
\* a big integer), packNum returns the unsupported-type error with an empty
\* result; it never crashes and never returns bytes.
C8_UnsupportedRejected ==
    (Called("packNum") /\ IsUnsupportedNumeric(input)) =>
        /\ pc = "returned"
        /\ result.err = "Could not pack number in packNum, invalid type"
        /\ result.bytes = <<>>

C10_InputUnchanged ==
    (pc # "ready" /\ call.fn \in {"packNum", "packElement"}) =>
        value = input

====
